---- MODULE Spec2Model ----
(***************************************************************************)
(* Model of the ball simulation engine of logic.py (class GameLogic).      *)
(*                                                                         *)
(* The World is the state: the live map _balls (a Python dict, modelled as *)
(* the sequence of its values in insertion order), the inventory list, the *)
(* id counter, the optional capacity and deletion zone, and the bounds.    *)
(* Every public method is one action.  The variable call records the last  *)
(* call made on the World: its name, its arguments and what it returned.   *)
(*                                                                         *)
(* Numbers are integers: positions, velocities, radii and dt are drawn     *)
(* from integer sets, on which the float arithmetic of the code is exact.  *)
(* Angles are in degrees, on the lattice of multiples of 90 where cos and  *)
(* sin are 0, 1 or -1.  The random source is a nondeterministic choice.    *)
(* A colour is a term: a base colour, or the mix of two colours.           *)
(***************************************************************************)
EXTENDS Integers, Sequences, FiniteSets, TLC

VARIABLES width, height, _balls, _next_id, inventory_capacity, inventory,
          deletion_zone, call

vars == <<width, height, _balls, _next_id, inventory_capacity, inventory,
          deletion_zone, call>>

----------------------------------------------------------------------------
(* Optional values: None, or a one-element sequence holding the value.     *)
None == <<>>

Some(v) == <<v>>

Max(a, b) == IF a >= b THEN a ELSE b

Min(a, b) == IF a <= b THEN a ELSE b

Abs(a) == IF a < 0 THEN -a ELSE a

----------------------------------------------------------------------------
(* Bounds of the model.                                                    *)

\* create_ball is called while the id counter is at most MaxBalls.
MaxBalls == 2

\* update mixes colours only while no colour term gets deeper than this.
MaxMixDepth == 1

----------------------------------------------------------------------------
(* Geometry primitives.                                                    *)

Vector2(x, y) == [x |-> x, y |-> y]

add(a, b) == Vector2(a.x + b.x, a.y + b.y)

sub(a, b) == Vector2(a.x - b.x, a.y - b.y)

mul(v, scalar) == Vector2(v.x * scalar, v.y * scalar)

\* math.hypot, for the vectors of the model, which lie on an axis.
length(v) == IF v.x = 0 THEN Abs(v.y) ELSE Abs(v.x)

normalized(v) ==
    IF length(v) = 0 THEN Vector2(0, 0)
    ELSE Vector2(v.x \div length(v), v.y \div length(v))

Rect(x, y, w, h) == [x |-> x, y |-> y, width |-> w, height |-> h]

\* Rect.contains with the edges left out
contains_strict(rect, p) ==
    /\ rect.x < p.x /\ p.x < rect.x + rect.width
    /\ rect.y < p.y /\ p.y < rect.y + rect.height

contains(rect, p) ==
    /\ rect.x <= p.x /\ p.x <= rect.x + rect.width
    /\ rect.y <= p.y /\ p.y <= rect.y + rect.height

Ball(id, position, velocity, radius, color) ==
    [ball_id |-> id, position |-> position, velocity |-> velocity,
     radius |-> radius, color |-> color]

----------------------------------------------------------------------------
(* Colours.  mix_colors is a function of its two arguments alone and is    *)
(* symmetric in them (every sum and product of the code is over the two    *)
(* colours in a commutative way), so the mixed colour is the term over the *)
(* set of the two colours mixed.                                           *)

BaseColor(name) == [base |-> name]

mix_colors(c1, c2) == [mix |-> {c1, c2}]

SetMax(S) == CHOOSE m \in S : \A n \in S : n <= m

\* how many mixes are nested in a colour
RECURSIVE MixDepth(_)
MixDepth(c) ==
    IF "base" \in DOMAIN c THEN 0
    ELSE 1 + SetMax({MixDepth(t) : t \in c.mix})

----------------------------------------------------------------------------
(* The live map: a dict keyed by ball id, as the sequence of its values in *)
(* insertion order.                                                        *)

Range(s) == {s[i] : i \in 1..Len(s)}

Ids(bs) == {bs[i].ball_id : i \in 1..Len(bs)}

IdSeq(bs) == [i \in 1..Len(bs) |-> bs[i].ball_id]

Lookup(bs, id) == bs[CHOOSE i \in 1..Len(bs) : bs[i].ball_id = id]

\* d[ball.ball_id] = ball: in place when the key is present, else at the end
DictSet(bs, ball) ==
    IF ball.ball_id \in Ids(bs)
    THEN [i \in 1..Len(bs) |->
            IF bs[i].ball_id = ball.ball_id THEN ball ELSE bs[i]]
    ELSE Append(bs, ball)

\* a pop that leaves the ball in the dict
DictDel_kept(bs, id) == bs

\* del d[id] / d.pop(id, None)
DictDel(bs, id) == SelectSeq(bs, LAMBDA b : b.ball_id # id)

RECURSIVE Concat(_)
Concat(ss) == IF ss = <<>> THEN <<>> ELSE Head(ss) \o Concat(Tail(ss))

----------------------------------------------------------------------------
(* update, step 1: Euler integration and toroidal wrap.  Python's % takes  *)
(* the sign of the divisor, as % of Integers does for a positive one.      *)

\* the wrap with a remainder that takes the sign of the dividend (C's fmod)
integrate_fmod(ball, dt) ==
    LET p == add(ball.position, mul(ball.velocity, dt))
        fmod(a, w) == IF a >= 0 THEN a % w ELSE -((-a) % w)
    IN [ball EXCEPT !.position = Vector2(fmod(p.x, width), fmod(p.y, height))]

integrate(ball, dt) ==
    LET p == add(ball.position, mul(ball.velocity, dt))
    IN [ball EXCEPT !.position = Vector2(p.x % width, p.y % height)]

integrate_all(bs, dt) == [i \in 1..Len(bs) |-> integrate(bs[i], dt)]

(* update, step 2: the balls inside the deletion zone are removed.         *)

to_delete(bs, zone) ==
    IF zone = None THEN {}
    ELSE {bs[i].ball_id : i \in {j \in 1..Len(bs) : contains(zone[1], bs[j].position)}}

cull(bs, zone) == SelectSeq(bs, LAMBDA b : b.ball_id \notin to_delete(bs, zone))

----------------------------------------------------------------------------
(* update, step 3: colour mixing over a uniform grid.  A cell size is the  *)
(* fraction num/den, so that the average radius times 2.5 is exact.        *)

RECURSIVE SumRadius(_)
SumRadius(bs) ==
    IF bs = <<>> THEN 0 ELSE Head(bs).radius + SumRadius(Tail(bs))

estimate_cell_size(bs) ==
    IF Len(bs) = 0 THEN [num |-> 64, den |-> 1]
    ELSE LET den == 2 * Len(bs)
             avg25 == 5 * SumRadius(bs)     \* avg_r * 2.5, times den
         IN [num |-> Max(16 * den, Min(128 * den, avg25)), den |-> den]

\* the estimate used as it is
cell_size_unfloored(bs) == estimate_cell_size(bs)

cell_size(bs) ==
    LET e == estimate_cell_size(bs)
    IN [num |-> Max(32 * e.den, e.num), den |-> e.den]

\* (int(x // cell_size), int(y // cell_size))
cell_of(ball, cs) ==
    <<(ball.position.x * cs.den) \div cs.num,
      (ball.position.y * cs.den) \div cs.num>>

\* the keys of the grid dict, in the order in which setdefault inserts them
RECURSIVE grid_keys(_, _)
grid_keys(bs, cs) ==
    IF bs = <<>> THEN <<>>
    ELSE LET n == Len(bs)
             rest == grid_keys(SubSeq(bs, 1, n - 1), cs)
             key == cell_of(bs[n], cs)
         IN IF key \in Range(rest) THEN rest ELSE Append(rest, key)

\* grid[key], or the empty list when the key is not in the grid
bucket(bs, cs, key) == SelectSeq(bs, LAMBDA b : cell_of(b, cs) = key)

\* the cell of the bucket alone
NeighborOffsets_own == << <<0, 0>> >>

\* for ny in (-1, 0, 1): for nx in (-1, 0, 1)
NeighborOffsets ==
    << <<-1, -1>>, <<0, -1>>, <<1, -1>>,
       <<-1,  0>>, <<0,  0>>, <<1,  0>>,
       <<-1,  1>>, <<0,  1>>, <<1,  1>> >>

neighbors(bs, cs, key) ==
    Concat([k \in 1..Len(NeighborOffsets) |->
              bucket(bs, cs, <<key[1] + NeighborOffsets[k][1],
                               key[2] + NeighborOffsets[k][2]>>)])

\* the pairs (a, b) handed to _maybe_mix, in the order of the calls
pairs_of_bucket(bs, cs, key) ==
    LET bk == bucket(bs, cs, key)
        nb == neighbors(bs, cs, key)
    IN Concat([i \in 1..Len(bk) |->
                 LET later == SelectSeq(nb, LAMBDA b : ~(bk[i].ball_id >= b.ball_id))
                 IN [j \in 1..Len(later) |-> <<bk[i].ball_id, later[j].ball_id>>]])

checked_pairs(bs) ==
    LET cs == cell_size(bs)
        keys == grid_keys(bs, cs)
    IN Concat([k \in 1..Len(keys) |-> pairs_of_bucket(bs, cs, keys[k])])

overlap(a, b) ==
    LET dx == b.position.x - a.position.x
        dy == b.position.y - a.position.y
        r == a.radius + b.radius
    IN dx * dx + dy * dy <= r * r

\* _maybe_mix on the balls with ids pair[1] and pair[2] of the live map bs
maybe_mix(bs, pair) ==
    LET a == Lookup(bs, pair[1])
        b == Lookup(bs, pair[2])
        mixed == mix_colors(a.color, b.color)
    IN IF overlap(a, b)
       THEN [i \in 1..Len(bs) |->
               IF bs[i].ball_id \in {pair[1], pair[2]}
               THEN [bs[i] EXCEPT !.color = mixed] ELSE bs[i]]
       ELSE bs

RECURSIVE mix_in_order(_, _)
mix_in_order(bs, pairs) ==
    IF pairs = <<>> THEN bs
    ELSE mix_in_order(maybe_mix(bs, Head(pairs)), Tail(pairs))

apply_color_mixing(bs) == mix_in_order(bs, checked_pairs(bs))

\* the pairs for which _maybe_mix called mix_colors, in the order of the calls
mixed_pairs(bs) ==
    SelectSeq(checked_pairs(bs),
              LAMBDA pr : overlap(Lookup(bs, pr[1]), Lookup(bs, pr[2])))

----------------------------------------------------------------------------
(* suck_into_inventory.                                                    *)

dist2(ball, point) ==
    LET dx == ball.position.x - point.x
        dy == ball.position.y - point.y
    IN dx * dx + dy * dy

\* every ball of the live map is a candidate, wherever it is
candidates_all(bs, point, radius) == bs

\* the balls of the live map within radius of point, in map order
candidates(bs, point, radius) ==
    SelectSeq(bs, LAMBDA b : dist2(b, point) <= radius * radius)

\* the candidates left in map order
sort_by_dist_unsorted(cands, point) == cands

\* list.sort(key = distance): stable, ascending.  The key of the code is
\* math.hypot(dx, dy), which orders the balls as its square does.
RECURSIVE sort_by_dist(_, _)
sort_by_dist(cands, point) ==
    IF cands = <<>> THEN <<>>
    ELSE LET n == Len(cands)
             sorted == sort_by_dist(SubSeq(cands, 1, n - 1), point)
             b == cands[n]
             k == Cardinality({i \in 1..Len(sorted) :
                                 dist2(sorted[i], point) <= dist2(b, point)})
         IN SubSeq(sorted, 1, k) \o <<b>> \o SubSeq(sorted, k + 1, Len(sorted))

count_reached(sucked, max_count) ==
    max_count # None /\ Len(sucked) >= max_count[1]

\* the capacity test off by one
capacity_reached_late(inv, capacity) ==
    capacity # None /\ Len(inv) > capacity[1]

capacity_reached(inv, capacity) ==
    capacity # None /\ Len(inv) >= capacity[1]

\* the loop over the sorted candidates; st is [balls, inventory, sucked]
RECURSIVE suck_loop(_, _, _, _)
suck_loop(st, cands, max_count, capacity) ==
    IF cands = <<>> THEN st
    ELSE IF count_reached(st.sucked, max_count) THEN st
    ELSE IF capacity_reached(st.inventory, capacity) THEN st
    ELSE suck_loop([balls |-> DictDel(st.balls, Head(cands).ball_id),
                    inventory |-> Append(st.inventory, Head(cands)),
                    sucked |-> Append(st.sucked, Head(cands))],
                   Tail(cands), max_count, capacity)

----------------------------------------------------------------------------
(* spit_from_inventory.  A draw of the random source is the number U/2 of  *)
(* [0, 1), for U in USamples; each emitted ball takes two draws.           *)

USamples == {0, 1}

\* random.uniform(a, b) = a + (b - a) * random()
uniform(a, b, u) == a + ((b - a) * u) \div 2

\* math.degrees(math.atan2(y, x)) of a vector on an axis
atan2(y, x) ==
    IF y = 0 THEN (IF x < 0 THEN 180 ELSE 0)
    ELSE IF y > 0 THEN 90 ELSE -90

cos(angle) ==
    LET a == angle % 360 IN IF a = 0 THEN 1 ELSE IF a = 180 THEN -1 ELSE 0

sin(angle) ==
    LET a == angle % 360 IN IF a = 90 THEN 1 ELSE IF a = 270 THEN -1 ELSE 0

emission_angle(direction_norm, spread_degrees, u) ==
    IF direction_norm = None THEN uniform(0, 360, u)
    ELSE atan2(direction_norm[1].y, direction_norm[1].x)
         + uniform(-(spread_degrees \div 2), spread_degrees \div 2, u)

\* base_speed * (0.85 + 0.30 * random())
emission_speed(base_speed, u) == (base_speed * (170 + 30 * u)) \div 200

\* inventory.pop(0)
pop_first(inv) == [ball |-> inv[1], rest |-> SubSeq(inv, 2, Len(inv))]

\* inventory.pop()
pop(inv) == [ball |-> inv[Len(inv)], rest |-> SubSeq(inv, 1, Len(inv) - 1)]

\* the emitted ball is not put back into the live map
reinsert_lost(bs, ball) == bs

\* self._balls[ball.ball_id] = ball
reinsert(bs, ball) == DictSet(bs, ball)

\* one turn of the loop; st is [balls, inventory, emitted], draw is <<u, u>>
spit_one(st, point, direction_norm, base_speed, spread_degrees, draw) ==
    LET popped == pop(st.inventory)
        angle == emission_angle(direction_norm, spread_degrees, draw[1])
        speed == emission_speed(base_speed, draw[2])
        ball == [popped.ball EXCEPT
                   !.position = Vector2(point.x, point.y),
                   !.velocity = Vector2(cos(angle) * speed, sin(angle) * speed)]
    IN [balls |-> reinsert(st.balls, ball),
        inventory |-> popped.rest,
        emitted |-> Append(st.emitted, ball)]

RECURSIVE spit_loop(_, _, _, _, _, _)
spit_loop(st, point, direction_norm, base_speed, spread_degrees, draws) ==
    IF draws = <<>> THEN st
    ELSE spit_loop(spit_one(st, point, direction_norm, base_speed,
                            spread_degrees, Head(draws)),
                   point, direction_norm, base_speed, spread_degrees,
                   Tail(draws))

\* the whole inventory is emitted, whatever the count
turns_all(count, inv) == Len(inv)

\* range(min(count, len(inventory)))
turns(count, inv) == Max(0, Min(count, Len(inv)))

----------------------------------------------------------------------------
(* The operations of GameLogic, one action each.                           *)

\* for b in initial_balls: self._balls[b.ball_id] = b
RECURSIVE initial_map(_)
initial_map(initial_balls) ==
    IF initial_balls = <<>> THEN <<>>
    ELSE DictSet(initial_map(SubSeq(initial_balls, 1, Len(initial_balls) - 1)),
                 initial_balls[Len(initial_balls)])

\* self._next_id = max(self._next_id, b.ball_id + 1), from 1
RECURSIVE initial_next_id(_)
initial_next_id(initial_balls) ==
    IF initial_balls = <<>> THEN 1
    ELSE Max(initial_next_id(Tail(initial_balls)), Head(initial_balls).ball_id + 1)

\* GameLogic(w, h, initial_balls = ..., inventory_capacity = capacity)
Construct(w, h, initial_balls, capacity) ==
    /\ width = w
    /\ height = h
    /\ _balls = initial_map(initial_balls)
    /\ _next_id = initial_next_id(initial_balls)
    /\ inventory_capacity = capacity
    /\ inventory = <<>>
    /\ deletion_zone = None
    /\ call = [op |-> "__init__"]

\* create_ball with the lowest id that no ball of the World has
create_ball_reuse(position, velocity, radius, color) ==
    LET used == Ids(_balls) \cup Ids(inventory)
        id == CHOOSE n \in 1..(Cardinality(used) + 1) :
                 n \notin used /\ \A m \in 1..(n - 1) : m \in used
    IN /\ _next_id <= MaxBalls
       /\ _balls' = DictSet(_balls, Ball(id, position, velocity, radius, color))
       /\ _next_id' = _next_id + 1
       /\ call' = [op |-> "create_ball", result |-> id]
       /\ UNCHANGED <<width, height, inventory_capacity, inventory, deletion_zone>>

create_ball(position, velocity, radius, color) ==
    /\ _next_id <= MaxBalls
    /\ _balls' = DictSet(_balls, Ball(_next_id, position, velocity, radius, color))
    /\ _next_id' = _next_id + 1
    /\ call' = [op |-> "create_ball", result |-> _next_id]
    /\ UNCHANGED <<width, height, inventory_capacity, inventory, deletion_zone>>

\* remove_ball that takes the ball out of the inventory as well
remove_ball_anywhere(ball_id) ==
    /\ _balls' = IF ball_id \in Ids(_balls) THEN DictDel(_balls, ball_id) ELSE _balls
    /\ inventory' = DictDel(inventory, ball_id)
    /\ call' = [op |-> "remove_ball", ball_id |-> ball_id,
                removed |-> ball_id \in Ids(_balls)]
    /\ UNCHANGED <<width, height, _next_id, inventory_capacity, deletion_zone>>

\* remove_ball that gives the id back to the counter
remove_ball_recycle(ball_id) ==
    /\ _balls' = IF ball_id \in Ids(_balls) THEN DictDel(_balls, ball_id) ELSE _balls
    /\ _next_id' = IF ball_id \in Ids(_balls) THEN Min(_next_id, ball_id) ELSE _next_id
    /\ call' = [op |-> "remove_ball", ball_id |-> ball_id,
                removed |-> ball_id \in Ids(_balls)]
    /\ UNCHANGED <<width, height, inventory_capacity, inventory, deletion_zone>>

remove_ball(ball_id) ==
    /\ _balls' = IF ball_id \in Ids(_balls) THEN DictDel(_balls, ball_id) ELSE _balls
    /\ call' = [op |-> "remove_ball", ball_id |-> ball_id,
                removed |-> ball_id \in Ids(_balls)]
    /\ UNCHANGED <<width, height, _next_id, inventory_capacity, inventory,
                   deletion_zone>>

set_deletion_zone(rect) ==
    /\ deletion_zone' = rect
    /\ call' = [op |-> "set_deletion_zone"]
    /\ UNCHANGED <<width, height, _balls, _next_id, inventory_capacity, inventory>>

\* update(dt) for dt > 0: the live map it leaves, the ids it deleted, the
\* cell size of its grid and the pairs it mixed
updated(bs, zone, dt) ==
    LET moved == integrate_all(bs, dt)
        kept == cull(moved, zone)
    IN [balls |-> apply_color_mixing(kept),
        deleted |-> to_delete(moved, zone),
        cell |-> cell_size(kept),
        mixed |-> mixed_pairs(kept)]

update(dt) ==
    /\ IF dt <= 0
       THEN /\ _balls' = _balls
            /\ call' = [op |-> "update", dt |-> dt, deleted |-> {}, mixed |-> <<>>]
       ELSE LET res == updated(_balls, deletion_zone, dt)
            IN /\ \A i \in 1..Len(res.balls) :
                    MixDepth(res.balls[i].color) <= MaxMixDepth
               /\ _balls' = res.balls
               /\ call' = [op |-> "update", dt |-> dt, deleted |-> res.deleted,
                           cell |-> res.cell, mixed |-> res.mixed]
    /\ UNCHANGED <<width, height, _next_id, inventory_capacity, inventory,
                   deletion_zone>>

suck_into_inventory(point, radius, max_count) ==
    LET sorted == sort_by_dist(candidates(_balls, point, radius), point)
        st == suck_loop([balls |-> _balls, inventory |-> inventory, sucked |-> <<>>],
                        sorted, max_count, inventory_capacity)
    IN /\ _balls' = st.balls
       /\ inventory' = st.inventory
       /\ call' = [op |-> "suck_into_inventory", point |-> point, radius |-> radius,
                   max_count |-> max_count, result |-> IdSeq(st.sucked)]
       /\ UNCHANGED <<width, height, _next_id, inventory_capacity, deletion_zone>>

spit_from_inventory(point, direction, count, base_speed, spread_degrees) ==
    LET direction_norm == IF direction = None THEN None
                          ELSE Some(normalized(direction[1]))
    IN \E draws \in [1..turns(count, inventory) -> USamples \X USamples] :
         LET st == spit_loop([balls |-> _balls, inventory |-> inventory,
                              emitted |-> <<>>],
                             point, direction_norm, base_speed, spread_degrees, draws)
         IN /\ _balls' = st.balls
            /\ inventory' = st.inventory
            /\ call' = [op |-> "spit_from_inventory", point |-> point,
                        direction |-> direction, count |-> count,
                        spread_degrees |-> spread_degrees,
                        result |-> IdSeq(st.emitted)]
            /\ UNCHANGED <<width, height, _next_id, inventory_capacity, deletion_zone>>

----------------------------------------------------------------------------
(* Spec: the inventory mechanic.  A 100 x 100 World with or without a      *)
(* capacity.  Balls are created at rest at two places, 0 and 5 away from   *)
(* the point where the caller sucks and spits; spat balls are at rest too  *)
(* (base_speed = 0).                                                       *)

Capacities == {None, Some(1)}

SuckPoint == Vector2(40, 40)

Seeds ==
    { <<Vector2(40, 40), Vector2(0, 0), 1, BaseColor("red")>>,
      <<Vector2(45, 40), Vector2(0, 0), 1, BaseColor("blue")>> }

Init == \E capacity \in Capacities : Construct(100, 100, <<>>, capacity)

Next ==
    \/ \E s \in Seeds : create_ball(s[1], s[2], s[3], s[4])
    \/ \E id \in 1..MaxBalls : remove_ball(id)
    \/ \E dt \in {-1, 0, 1} : update(dt)
    \/ \E radius \in {0, 5}, max_count \in {None, Some(1)} :
          suck_into_inventory(SuckPoint, radius, max_count)
    \/ \E count \in {1, 2} :
          spit_from_inventory(SuckPoint, None, count, 0, 20)

Spec == Init /\ [][Next]_vars

----------------------------------------------------------------------------
(* SpecStep: the simulation step.  Balls move by half the width per unit   *)
(* of time: one from (99, 0) to (49, 0) and back, one from outside the     *)
(* bounds to a corner of the deletion zone.  The caller spits, at rest, at *)
(* a point outside the bounds that wraps to the middle of the zone.        *)

Zone == Rect(50, 50, 10, 10)

StepSeeds ==
    { <<Vector2(99, 0), Vector2(50, 0), 1, BaseColor("red")>>,
      <<Vector2(110, -100), Vector2(-50, -50), 1, BaseColor("blue")>> }

InitStep == Construct(100, 100, <<>>, None)

NextStep ==
    \/ \E s \in StepSeeds : create_ball(s[1], s[2], s[3], s[4])
    \/ \E id \in 1..MaxBalls : remove_ball(id)
    \/ \E rect \in {None, Some(Zone)} : set_deletion_zone(rect)
    \/ \E dt \in {-1, 0, 1} : update(dt)
    \/ suck_into_inventory(Vector2(55, 55), 60, Some(4))
    \/ spit_from_inventory(Vector2(155, -45), None, 1, 0, 20)

SpecStep == InitStep /\ [][NextStep]_vars

----------------------------------------------------------------------------
(* SpecMix: colour mixing.  The World is constructed with one big ball     *)
(* (radius 30); small balls (radius 3) are created at rest where they      *)
(* touch the big ball, touch each other, or touch nothing.                 *)

BigBall == Ball(0, Vector2(31, 10), Vector2(0, 0), 30, BaseColor("green"))

MixSeeds ==
    { <<Vector2(64, 10), Vector2(0, 0), 3, BaseColor("red")>>,
      <<Vector2(64, 16), Vector2(0, 0), 3, BaseColor("blue")>>,
      <<Vector2(64, 50), Vector2(0, 0), 3, BaseColor("blue")>> }

InitMix == Construct(100, 100, <<BigBall>>, None)

NextMix ==
    \/ \E s \in MixSeeds : create_ball(s[1], s[2], s[3], s[4])
    \/ \E id \in 0..MaxBalls : remove_ball(id)
    \/ \E dt \in {0, 1} : update(dt)
    \/ suck_into_inventory(Vector2(64, 10), 0, None)
    \/ spit_from_inventory(Vector2(64, 16), None, 1, 0, 20)

SpecMix == InitMix /\ [][NextMix]_vars

----------------------------------------------------------------------------
(* SpecCreate: creation with any parameters.  The World is constructed     *)
(* with a positive, zero or negative width and height, and balls are       *)
(* created with a positive, zero or negative radius.  update is not called *)
(* here: with width = 0 its wrap is a modulo by zero.                      *)

Dimensions == {100, 0, -100}

Radii == {1, 0, -1}

InitCreate ==
    \E w \in Dimensions, h \in Dimensions : Construct(w, h, <<>>, None)

NextCreate ==
    \/ \E radius \in Radii :
          create_ball(Vector2(40, 40), Vector2(0, 0), radius, BaseColor("red"))
    \/ \E id \in 1..MaxBalls : remove_ball(id)
    \/ suck_into_inventory(SuckPoint, 5, Some(1))
    \/ spit_from_inventory(SuckPoint, None, 1, 0, 20)

SpecCreate == InitCreate /\ [][NextCreate]_vars

----------------------------------------------------------------------------
(* SpecSpit: the direction of a spit.  The caller spits with no direction, *)
(* with a direction of length zero and with a direction along the y axis,  *)
(* with a spread of 180 degrees, so that the angles drawn are multiples of *)
(* 90 degrees.  The base speed 1000 gives the speeds 850 and 1000: a spat  *)
(* ball moves by half the width per unit of time, or by a whole number of  *)
(* widths.                                                                 *)

SpitPoint == Vector2(20, 20)

Directions == {None, Some(Vector2(0, 0)), Some(Vector2(0, 5))}

InitSpit == Construct(100, 100, <<>>, None)

NextSpit ==
    \/ create_ball(SpitPoint, Vector2(0, 0), 1, BaseColor("red"))
    \/ update(1)
    \/ suck_into_inventory(SpitPoint, 60, None)
    \/ \E direction \in Directions :
          spit_from_inventory(SpitPoint, direction, 1, 1000, 180)

SpecSpit == InitSpit /\ [][NextSpit]_vars

----------------------------------------------------------------------------
(* SpecOrder: the order of the mixing calls.  The World is constructed     *)
(* with four balls at rest, two overlapping pairs far from each other; the *)
(* ids of the first pair are the lower ones.  The caller sucks the first   *)
(* pair and spits it back where it was, which puts it last in the live     *)
(* map.  No ball is created: the World has as many balls as it can hold.   *)

OrderBalls ==
    << Ball(0, Vector2(10, 10), Vector2(0, 0), 3, BaseColor("red")),
       Ball(1, Vector2(10, 14), Vector2(0, 0), 3, BaseColor("blue")),
       Ball(2, Vector2(80, 80), Vector2(0, 0), 3, BaseColor("green")),
       Ball(3, Vector2(80, 84), Vector2(0, 0), 3, BaseColor("yellow")) >>

InitOrder == Construct(100, 100, OrderBalls, None)

NextOrder ==
    \/ \E id \in 0..3 : remove_ball(id)
    \/ \E dt \in {0, 1} : update(dt)
    \/ suck_into_inventory(Vector2(10, 10), 5, None)
    \/ \E count \in {1, 2} :
          spit_from_inventory(Vector2(10, 10), None, count, 0, 20)

SpecOrder == InitOrder /\ [][NextOrder]_vars

----------------------------------------------------------------------------
(* Properties.  A step is the call recorded in call': the unprimed World   *)
(* is the one before the call, the primed World the one after it.          *)

Sucks == call'.op = "suck_into_inventory"

Spits == call'.op = "spit_from_inventory"

Updates == call'.op = "update"

SqDist(p, q) == (p.x - q.x) * (p.x - q.x) + (p.y - q.y) * (p.y - q.y)

NoRepeat(ids) == \A i, j \in 1..Len(ids) : i # j => ids[i] # ids[j]

\* C1: a suck or a spit leaves the number of live balls plus the number of
\* inventory balls as it was, so the sum is constant over any sequence of them.
C1_Conservation ==
    [][(Sucks \/ Spits) =>
         Len(_balls') + Len(inventory') = Len(_balls) + Len(inventory)]_vars

\* a ball went into the inventory and came back while another stayed in it
C1_Witness ==
    /\ call.op = "spit_from_inventory"
    /\ Len(call.result) = 1
    /\ Len(inventory) = 1
    /\ Len(_balls) = 1

\* C2: with a capacity configured, the inventory never holds more balls than it.
C2_CapacityBound ==
    inventory_capacity # None => Len(inventory) <= inventory_capacity[1]

\* a suck without max_count stopped at the capacity, a ball in range left live
C2_Witness ==
    /\ inventory_capacity # None
    /\ call.op = "suck_into_inventory"
    /\ call.max_count = None
    /\ call.result # <<>>
    /\ Len(inventory) = inventory_capacity[1]
    /\ \E i \in 1..Len(_balls) :
         SqDist(_balls[i].position, call.point) <= call.radius * call.radius

\* C3: the inventory is a stack.  A suck pushes the captured balls in capture
\* order, a spit pops from the end and returns the balls in the order popped
\* (the most recently captured first), and no other call touches the inventory.
C3_LIFO ==
    [][/\ Sucks => IdSeq(inventory') = IdSeq(inventory) \o call'.result
       /\ Spits =>
            LET n == Len(call'.result)
                m == Len(inventory)
            IN /\ n <= m
               /\ \A i \in 1..n : call'.result[i] = inventory[m - i + 1].ball_id
               /\ IdSeq(inventory') = SubSeq(IdSeq(inventory), 1, m - n)
       /\ ~(Sucks \/ Spits) => inventory' = inventory]_vars

\* two balls were captured and one spit has released both
C3_Witness ==
    /\ call.op = "spit_from_inventory"
    /\ Len(call.result) = 2
    /\ call.result[1] # call.result[2]

\* C4: no id is both live and in the inventory, and none is twice in a
\* container.
C4_ExclusiveOwnership ==
    /\ Ids(_balls) \cap Ids(inventory) = {}
    /\ NoRepeat(IdSeq(inventory))
    /\ NoRepeat(IdSeq(_balls))

\* after a suck, one ball is in the inventory while another is live
C4_Witness ==
    /\ call.op = "suck_into_inventory"
    /\ call.result # <<>>
    /\ inventory # <<>>
    /\ _balls # <<>>

\* C9: a suck captures the k closest balls within radius of the point (edge
\* included), closest first, where k is the least of the number of balls in
\* range, max_count and the room left in the inventory; it returns them in that
\* order, appends them to the inventory in that order and removes them from the
\* live map; no ball left in range is closer than a captured one.
C9_SuckSelection ==
    [][Sucks =>
         LET point == call'.point
             res == call'.result
             D(id) == SqDist(Lookup(_balls, id).position, point)
             inRange == {id \in Ids(_balls) : D(id) <= call'.radius * call'.radius}
             limit == IF call'.max_count = None THEN Len(_balls)
                      ELSE call'.max_count[1]
             room == IF inventory_capacity = None THEN Len(_balls)
                     ELSE inventory_capacity[1] - Len(inventory)
             k == Min(Cardinality(inRange), Min(limit, room))
         IN /\ Len(res) = k
            /\ NoRepeat(res)
            /\ \A i \in 1..k : res[i] \in inRange
            /\ \A i, j \in 1..k : i < j => D(res[i]) <= D(res[j])
            /\ \A id \in inRange \ Range(res) :
                 \A i \in 1..k : D(res[i]) <= D(id)
            /\ inventory' = inventory \o [i \in 1..k |-> Lookup(_balls, res[i])]
            /\ _balls' = SelectSeq(_balls, LAMBDA b : b.ball_id \notin Range(res))
      ]_vars

\* a suck took the closest ball and left a farther ball in range
C9_Witness ==
    /\ call.op = "suck_into_inventory"
    /\ Len(call.result) = 1
    /\ \E i \in 1..Len(_balls) :
         /\ SqDist(_balls[i].position, call.point) <= call.radius * call.radius
         /\ SqDist(_balls[i].position, call.point)
              > SqDist(inventory[Len(inventory)].position, call.point)

\* C10: a spit takes min(count, len(inventory)) balls from the end of the
\* inventory; each is then live under its id, at the point, with its radius and
\* colour; the rest of the inventory and the balls already live are as before.
C10_SpitReinsertion ==
    [][Spits =>
         LET m == Len(inventory)
             n == Max(0, Min(call'.count, m))
         IN /\ Len(call'.result) = n
            /\ inventory' = SubSeq(inventory, 1, m - n)
            /\ Len(_balls') = Len(_balls) + n
            /\ \A j \in 1..Len(_balls) : _balls'[j] = _balls[j]
            /\ \A i \in 1..n :
                 LET was == inventory[m - i + 1]
                     now == _balls'[Len(_balls) + i]
                 IN /\ call'.result[i] = was.ball_id
                    /\ now.ball_id = was.ball_id
                    /\ now.position = call'.point
                    /\ now.radius = was.radius
                    /\ now.color = was.color
      ]_vars

\* a spit of two found one ball in the inventory and moved it to the point,
\* next to a ball that was live
C10_Witness ==
    /\ call.op = "spit_from_inventory"
    /\ call.count = 2
    /\ Len(call.result) = 1
    /\ Len(_balls) = 2
    /\ _balls[2].ball_id = call.result[1]
    /\ _balls[2].position = call.point
    /\ inventory = <<>>

InBounds(p) == 0 <= p.x /\ p.x < width /\ 0 <= p.y /\ p.y < height

\* C5: after update(dt) with dt >= 0, dt = 0 included, every live ball is
\* within the bounds, wherever it was before the call.  update returns at
\* once when dt = 0, and create_ball and spit_from_inventory place a ball
\* wherever they are told to, so that a ball out of the bounds stays there.
C5_WrapInvariant ==
    [][(Updates /\ call'.dt >= 0) =>
         \A i \in 1..Len(_balls') : InBounds(_balls'[i].position)]_vars

\* m is the value of v modulo w that is not negative
IsMod(v, w, m) == 0 <= m /\ m < w /\ (v - m) % w = 0

\* C6: update(dt) with dt > 0 moves every ball that stays live to
\* (x + vx * dt, y + vy * dt) modulo (width, height), with a modulo that is
\* never negative, and changes neither its velocity nor its radius.
C6_Integration ==
    [][(Updates /\ call'.dt > 0) =>
         \A i \in 1..Len(_balls') :
           \E j \in 1..Len(_balls) :
             LET was == _balls[j]
                 now == _balls'[i]
             IN /\ now.ball_id = was.ball_id
                /\ IsMod(was.position.x + was.velocity.x * call'.dt, width,
                         now.position.x)
                /\ IsMod(was.position.y + was.velocity.y * call'.dt, height,
                         now.position.y)
                /\ now.velocity = was.velocity
                /\ now.radius = was.radius]_vars

\* update(1) has moved the ball of velocity (50, 0) from (99, 0) to (49, 0)
C6_Witness ==
    /\ call.op = "update"
    /\ call.dt = 1
    /\ width = 100
    /\ \E i \in 1..Len(_balls) :
         /\ _balls[i].velocity = Vector2(50, 0)
         /\ _balls[i].position = Vector2(49, 0)

\* where update(dt) puts a ball before it culls
Wrapped(ball, dt) ==
    Vector2((ball.position.x + ball.velocity.x * dt) % width,
            (ball.position.y + ball.velocity.y * dt) % height)

Inside(rect, p) ==
    /\ rect.x <= p.x /\ p.x <= rect.x + rect.width
    /\ rect.y <= p.y /\ p.y <= rect.y + rect.height

\* C7: with a deletion zone configured, update(dt) with dt > 0 keeps exactly
\* the live balls whose wrapped position is not inside the zone, edges
\* included, and changes neither the inventory nor the id counter.
C7_Culling ==
    [][(Updates /\ call'.dt > 0 /\ deletion_zone # None) =>
         /\ IdSeq(_balls') =
              IdSeq(SelectSeq(_balls,
                      LAMBDA b : ~Inside(deletion_zone[1], Wrapped(b, call'.dt))))
         /\ inventory' = inventory
         /\ _next_id' = _next_id]_vars

\* an update has deleted a ball and kept another
C7_Witness ==
    /\ call.op = "update"
    /\ call.dt > 0
    /\ deletion_zone # None
    /\ call.deleted # {}
    /\ _balls # <<>>

Touch(a, b) ==
    SqDist(a.position, b.position) <= (a.radius + b.radius) * (a.radius + b.radius)

\* the live balls as update(dt) has them after integration and culling
Settled(dt) ==
    SelectSeq([i \in 1..Len(_balls) |->
                 [_balls[i] EXCEPT !.position = Wrapped(_balls[i], dt)]],
              LAMBDA b : deletion_zone = None
                         \/ ~Inside(deletion_zone[1], b.position))

\* C8: after update(dt) with dt > 0, two balls that overlap once moved, and
\* overlap no third ball, both carry the mix of the colours they had, and a
\* ball that overlaps no ball has kept its colour.
C8_PairwiseMixing ==
    [][(Updates /\ call'.dt > 0) =>
         LET bs == Settled(call'.dt)
             Alone(i, j) == \A k \in 1..Len(bs) :
                              k \notin {i, j} => (~Touch(bs[i], bs[k])
                                                  /\ ~Touch(bs[j], bs[k]))
         IN /\ Len(_balls') = Len(bs)
            /\ \A i, j \in 1..Len(bs) :
                 (i # j /\ Touch(bs[i], bs[j]) /\ Alone(i, j)) =>
                     /\ _balls'[i].color = mix_colors(bs[i].color, bs[j].color)
                     /\ _balls'[j].color = mix_colors(bs[i].color, bs[j].color)
            /\ \A i \in 1..Len(bs) :
                 (\A k \in 1..Len(bs) : k # i => ~Touch(bs[i], bs[k])) =>
                     _balls'[i].color = bs[i].color]_vars

\* the World without the record of the last call
World ==
    <<width, height, _balls, _next_id, inventory_capacity, inventory,
      deletion_zone>>

\* C11: remove_ball of an id that is not live, a suck with no ball within
\* radius of the point, a spit from an empty inventory and update(dt) with
\* dt <= 0 leave the whole World as it was, and the suck and the spit return
\* an empty list.
C11_SilentNoOps ==
    [][/\ (call'.op = "remove_ball" /\ call'.ball_id \notin Ids(_balls)) =>
            World' = World
       /\ (Sucks /\ \A i \in 1..Len(_balls) :
                      SqDist(_balls[i].position, call'.point)
                        > call'.radius * call'.radius) =>
            (World' = World /\ call'.result = <<>>)
       /\ (Spits /\ inventory = <<>>) =>
            (World' = World /\ call'.result = <<>>)
       /\ (Updates /\ call'.dt <= 0) => World' = World]_vars

\* a suck with room in the inventory took nothing: the only live ball is out
\* of its range
C11_Witness ==
    /\ call.op = "suck_into_inventory"
    /\ call.result = <<>>
    /\ inventory = <<>>
    /\ Len(_balls) = 1
    /\ SqDist(_balls[1].position, call.point) > call.radius * call.radius

\* C12: a World of non-positive width or height and a ball of non-positive
\* radius are rejected when they are created, so that no state has one.
C12_FailFast ==
    /\ width > 0
    /\ height > 0
    /\ \A i \in 1..Len(_balls) : _balls[i].radius > 0
    /\ \A i \in 1..Len(inventory) : inventory[i].radius > 0

\* the ids of the balls of the World, live or in the inventory
Present == Ids(_balls) \cup Ids(inventory)

\* C13: create_ball returns an id greater than every id the World has ever
\* had, and the new ball is live.  The ids of the World are always below the
\* id counter and the counter never goes down, so that the ids the World has
\* ever had, those of removed and culled balls included, are below it; the
\* id of a created ball is at or above the counter.
C13_IdAllocation ==
    [][/\ _next_id' >= _next_id
       /\ \A id \in Ids(_balls') \cup Ids(inventory') : id < _next_id'
       /\ call'.op = "create_ball" =>
            /\ call'.result >= _next_id
            /\ \A id \in Present : call'.result > id
            /\ call'.result \in Ids(_balls')
            /\ call'.result \notin Ids(inventory')]_vars

\* ball 2 was created after ball 1 had left the World
C13_Witness ==
    /\ call.op = "create_ball"
    /\ call.result = 2
    /\ Present = {2}

\* the last call took the ball of this id out of the live map for good
Removed(id) ==
    \/ call.op = "update" /\ id \in call.deleted
    \/ call.op = "remove_ball" /\ call.ball_id = id /\ call.removed

\* C14: once a ball has been culled by update, or removed by remove_ball
\* while it was live, its id is never again live or in the inventory.
C14_PermanentDeletion ==
    \A id \in 0..MaxBalls : [](Removed(id) => [](id \notin Present))

\* an update has culled ball 1 and left ball 2, created after it, live
C14_Witness ==
    /\ call.op = "update"
    /\ call.deleted = {1}
    /\ Removed(1)
    /\ Ids(_balls) = {2}

\* the velocity v is not zero and points at the angle (a multiple of 90)
HeadsTo(v, angle) ==
    \/ angle % 360 = 0 /\ v.x > 0 /\ v.y = 0
    \/ angle % 360 = 90 /\ v.x = 0 /\ v.y > 0
    \/ angle % 360 = 180 /\ v.x < 0 /\ v.y = 0
    \/ angle % 360 = 270 /\ v.x = 0 /\ v.y < 0

\* a spit of one ball with this direction can emit the ball at this angle
CanSpitAt(direction, angle) ==
    ENABLED (/\ spit_from_inventory(SpitPoint, direction, 1, 1000, 180)
             /\ HeadsTo(Lookup(_balls', call'.result[1]).velocity, angle))

\* C15: a spit with no direction, or with a direction of zero length, can
\* emit the ball at every angle of the circle (here: at both angles that the
\* draws of the model give over the whole circle, 0 and 180 degrees), while
\* a direction of non-zero length keeps the angle within its own angle plus or
\* minus half the spread (here: 90 degrees plus or minus 90).
C15_SpitDirection ==
    inventory # <<>> =>
        /\ \A angle \in {0, 180} : CanSpitAt(None, angle)
        /\ \A angle \in {0, 180} : CanSpitAt(Some(Vector2(0, 0)), angle)
        /\ \A angle \in {180, 270} : ~CanSpitAt(Some(Vector2(0, 5)), angle)

\* the grid cell of a ball for a cell size num/den
CellOf(b, cs) ==
    <<(b.position.x * cs.den) \div cs.num, (b.position.y * cs.den) \div cs.num>>

\* the cells of the two balls are the same or touch, diagonals included
Near(a, b, cs) ==
    /\ CellOf(a, cs)[1] - CellOf(b, cs)[1] \in {-1, 0, 1}
    /\ CellOf(a, cs)[2] - CellOf(b, cs)[2] \in {-1, 0, 1}

\* C16: in update(dt) with dt > 0, mix is called once for every pair of
\* distinct live balls that lie in the same or in adjacent cells of the grid
\* and overlap, and for nothing else: not for a pair that does not overlap,
\* not for a ball with itself, not twice for a pair.
C16_MixingCoverage ==
    [][(Updates /\ call'.dt > 0) =>
         LET bs == Settled(call'.dt)
             cs == call'.cell
             due == {<<bs[i].ball_id, bs[j].ball_id>> : i, j \in 1..Len(bs)}
             expected == {pr \in due :
                            /\ pr[1] < pr[2]
                            /\ Near(Lookup(bs, pr[1]), Lookup(bs, pr[2]), cs)
                            /\ Touch(Lookup(bs, pr[1]), Lookup(bs, pr[2]))}
         IN /\ NoRepeat(call'.mixed)
            /\ Range(call'.mixed) = expected]_vars

\* an update has mixed the big ball with a small ball of the next cell
C16_Witness ==
    /\ call.op = "update"
    /\ call.dt > 0
    /\ call.mixed = << <<0, 1>> >>
    /\ CellOf(Lookup(_balls, 0), call.cell) # CellOf(Lookup(_balls, 1), call.cell)

\* the pair p comes before the pair q in the order of the ids
PairBefore(p, q) == p[1] < q[1] \/ (p[1] = q[1] /\ p[2] < q[2])

\* C17: the mixing calls of one update are made in the order of the ids:
\* the sequence of the mixed pairs (a.id, b.id) is ascending, whatever the
\* order of the live map and the cells of the balls.
C17_MixingOrder ==
    [][(Updates /\ call'.dt > 0) =>
         \A i, j \in 1..Len(call'.mixed) :
           i < j => PairBefore(call'.mixed[i], call'.mixed[j])]_vars

\* C18: after update(dt) with dt > 0 every pair of live balls whose centres
\* are within the sum of their radii has been mixed in that update; the grid
\* leaves no overlapping pair out.
C18_NoPairMissed ==
    [][(Updates /\ call'.dt > 0) =>
         LET bs == Settled(call'.dt)
         IN \A i, j \in 1..Len(bs) :
              (bs[i].ball_id < bs[j].ball_id /\ Touch(bs[i], bs[j])) =>
                  <<bs[i].ball_id, bs[j].ball_id>> \in Range(call'.mixed)]_vars

RECURSIVE TotalRadius(_)
TotalRadius(bs) ==
    IF bs = <<>> THEN 0 ELSE bs[1].radius + TotalRadius(Tail(bs))

\* clamp(average radius * 2.5, 16, 128) as a fraction, 64 for no ball
Clamped(bs) ==
    IF bs = <<>> THEN [num |-> 64, den |-> 1]
    ELSE LET n == Len(bs)
             low == 16 * 2 * n
             high == 128 * 2 * n
             scaled == 5 * TotalRadius(bs)
         IN [num |-> IF scaled < low THEN low
                     ELSE IF scaled > high THEN high ELSE scaled,
             den |-> 2 * n]

\* the fractions are the same number
SameNumber(p, q) == p.num * q.den = q.num * p.den

C20_InventoryFrozen ==
    [][/\ call'.op \in {"update", "create_ball", "remove_ball"} =>
            inventory' = inventory
       /\ \A i \in 1..Len(inventory), j \in 1..Len(inventory') :
            inventory'[j].ball_id = inventory[i].ball_id =>
                inventory'[j] = inventory[i]]_vars

\* an update with a deletion zone has run while the inventory held a moving
\* ball whose stored position is inside the zone
C20_Witness ==
    /\ call.op = "update"
    /\ call.dt > 0
    /\ deletion_zone # None
    /\ \E i \in 1..Len(inventory) :
         /\ Inside(deletion_zone[1], inventory[i].position)
         /\ inventory[i].velocity # Vector2(0, 0)

====
